---------------------------- MODULE Spec2Model ----------------------------
(***************************************************************************)
(* Model of resources/lib/services/nfsession/msl/msl_utils.py              *)
(* (plugin.video.netflix): the stream matchers, the media-tag builder, the *)
(* change-detection gate, the error-reporting decorator, the request       *)
(* parameter encoder and the logblob payload builder.                      *)
(*                                                                         *)
(* Python values are modelled as follows:                                  *)
(*   dict            -> record                                             *)
(*   list            -> sequence                                           *)
(*   str (matched or escaped character by character) -> sequence of        *)
(*                      one-character strings                              *)
(*   str (only compared for equality) -> TLA+ string                       *)
(*   a call's outcome -> [kind |-> "ok", value |-> v] when it returns v,   *)
(*                       [kind |-> "raise", cls |-> c, msg |-> m] when it  *)
(*                       raises an exception of class c                    *)
(***************************************************************************)
EXTENDS Integers, Sequences, FiniteSets, TLC

VARIABLES
    manifest,       \* the manifest dict handed to the matchers (mutated in place by build_media_tag)
    play_times,     \* the playTimes dict built by build_media_tag and updated in place afterwards
    op,             \* name of the last function of msl_utils.py that was called
    args,           \* the arguments of that call
    ret,            \* the outcome of that call
    pc,             \* position inside error_catching_wrapper
    ui,             \* the error dialogs shown so far by ui.show_error_info
    calls           \* what the decorated function did in each wrapped call so far

vars == <<manifest, play_times, op, args, ret, pc, ui, calls>>

----------------------------------------------------------------------------
(* Bounds of the model *)

MaxTracks == 2      \* longest track list of a manifest
MaxStreams == 2     \* longest stream list of a track
MaxSubTracks == 6   \* longest timedtexttracks list of the subtitle matcher's manifests
MaxCalls == 3       \* wrapped calls / play-time updates in one behaviour

----------------------------------------------------------------------------
(* Python outcomes *)

Ok(v) == [kind |-> "ok", value |-> v]
Raise(c, m) == [kind |-> "raise", cls |-> c, msg |-> m]
NoCall == [kind |-> "none"]
NoArgs == [kind |-> "none"]
NoManifest == [audio_tracks |-> <<>>, video_tracks |-> <<>>, timedtexttracks |-> <<>>]
NoPlayTimes == [kind |-> "none"]

\* Sequences over S of length at most n
SeqUpTo(S, n) == UNION {[1..k -> S] : k \in 0..n}

----------------------------------------------------------------------------
(* Locale/channel normalisation *)

\* AUDIO_CHANNELS_CONV = {1: '1.0', 2: '2.0', 6: '5.1', 8: '7.1'}
AUDIO_CHANNELS_CONV == (1 :> "1.0") @@ (2 :> "2.0") @@ (6 :> "5.1") @@ (8 :> "7.1")

\* common.convert_language_iso: two-letter code of a language name or code,
\* '' when the value is not a language the converter knows.
convert_language_iso(raw) ==
    CASE raw = "eng" -> "en"
      [] raw = "en"  -> "en"
      [] raw = "he"  -> "he"
      [] OTHER       -> ""

\* common.apply_lang_code_changes: rewrites, in place, the language codes the
\* service spells differently from the player.
LANG_CODE_CHANGES == [l \in {"iw"} |-> "he"]

apply_lang_code_changes(tracks) ==
    [i \in DOMAIN tracks |->
        IF tracks[i].language \in DOMAIN LANG_CODE_CHANGES
        THEN [tracks[i] EXCEPT !.language = LANG_CODE_CHANGES[@]]
        ELSE tracks[i]]

----------------------------------------------------------------------------
(* Stream matchers *)

\* Variant of MaxByBitrate that keeps the last of several maxima.
MaxByBitrateLast(streams) ==
    LET i == CHOOSE i \in DOMAIN streams :
                /\ \A j \in DOMAIN streams : streams[j].bitrate <= streams[i].bitrate
                /\ \A j \in DOMAIN streams :
                      streams[j].bitrate = streams[i].bitrate => j <= i
    IN streams[i]

\* max(seq, key=lambda x: x['bitrate']): the first element whose key no
\* element exceeds; ValueError on an empty sequence (handled by the caller).
MaxByBitrate(streams) ==
    LET i == CHOOSE i \in DOMAIN streams :
                /\ \A j \in DOMAIN streams : streams[j].bitrate <= streams[i].bitrate
                /\ \A j \in 1..(i - 1) : streams[j].bitrate < streams[i].bitrate
    IN streams[i]

\* `for x in seq: if test(x): return ...`: the index of the first element of seq
\* that passes the test, given the set of the indices that pass; 0 when no
\* element passes and the loop runs to its end
FirstIndex(hits) ==
    IF hits = {} THEN 0 ELSE CHOOSE i \in hits : \A j \in hits : i <= j

\* Variant of _find_audio_data that falls back to a default channel label.
_find_audio_data_default(player_state, m) ==
    LET raw == player_state.currentaudiostream.language
        conv == convert_language_iso(raw)
        language == IF conv = "" THEN raw ELSE conv
        ch == player_state.currentaudiostream.channels
        channels == IF ch \in DOMAIN AUDIO_CHANNELS_CONV THEN AUDIO_CHANNELS_CONV[ch] ELSE "5.1"
        Match(t) == t.language = language /\ t.channels = channels
        i == FirstIndex({x \in DOMAIN m.audio_tracks : Match(m.audio_tracks[x])})
    IN  IF i = 0
        THEN Raise("Exception", "unable to find audio data")
        ELSE IF m.audio_tracks[i].streams = <<>>
             THEN Raise("ValueError", "max() arg is an empty sequence")
             ELSE Ok(<<MaxByBitrate(m.audio_tracks[i].streams).downloadable_id,
                       m.audio_tracks[i].new_track_id>>)

_find_audio_data(player_state, m) ==
    LET raw == player_state.currentaudiostream.language
        conv == convert_language_iso(raw)
        language == IF conv = "" THEN raw ELSE conv
        ch == player_state.currentaudiostream.channels
    IN  IF ch \notin DOMAIN AUDIO_CHANNELS_CONV
        THEN Raise("KeyError", "channels")
        ELSE LET channels == AUDIO_CHANNELS_CONV[ch]
                 Match(t) == t.language = language /\ t.channels = channels
                 i == FirstIndex({x \in DOMAIN m.audio_tracks : Match(m.audio_tracks[x])})
             IN  IF i = 0
                 THEN Raise("Exception", "unable to find audio data")
                 ELSE IF m.audio_tracks[i].streams = <<>>
                      THEN Raise("ValueError", "max() arg is an empty sequence")
                      ELSE Ok(<<MaxByBitrate(m.audio_tracks[i].streams).downloadable_id,
                                m.audio_tracks[i].new_track_id>>)


\* Python's `needle in haystack` for str
IsSubstring(needle, haystack) ==
    \E k \in 0..(Len(haystack) - Len(needle)) :
        SubSeq(haystack, k + 1, k + Len(needle)) = needle

\* Variant of _find_video_data that accepts a width one pixel off.
_find_video_data_loose(player_state, m) ==
    LET codec == player_state.currentvideostream.codec
        width == player_state.currentvideostream.width
        height == player_state.currentvideostream.height
        Match(st) == /\ IsSubstring(codec, st.content_profile)
                     /\ width - st.res_w \in {-1, 0, 1}
                     /\ height = st.res_h
        HasMatch(t) == \E j \in DOMAIN t.streams : Match(t.streams[j])
        i == FirstIndex({x \in DOMAIN m.video_tracks : HasMatch(m.video_tracks[x])})
        streams == m.video_tracks[i].streams
        j == FirstIndex({x \in DOMAIN streams : Match(streams[x])})
    IN  IF i = 0
        THEN Raise("Exception", "unable to find video data")
        ELSE Ok(<<streams[j].downloadable_id, m.video_tracks[i].new_track_id>>)

_find_video_data(player_state, m) ==
    LET codec == player_state.currentvideostream.codec
        width == player_state.currentvideostream.width
        height == player_state.currentvideostream.height
        Match(st) == /\ IsSubstring(codec, st.content_profile)
                     /\ width = st.res_w
                     /\ height = st.res_h
        HasMatch(t) == \E j \in DOMAIN t.streams : Match(t.streams[j])
        i == FirstIndex({x \in DOMAIN m.video_tracks : HasMatch(m.video_tracks[x])})
        streams == m.video_tracks[i].streams
        j == FirstIndex({x \in DOMAIN streams : Match(streams[x])})
    IN  IF i = 0
        THEN Raise("Exception", "unable to find video data")
        ELSE Ok(<<streams[j].downloadable_id, m.video_tracks[i].new_track_id>>)

\* Variant of _find_subtitle_data that keeps the last "disabled" track.
_find_subtitle_data_last(m) ==
    LET IsNone(t) == t.isNoneTrack
    IN  IF ~\E i \in DOMAIN m.timedtexttracks : IsNone(m.timedtexttracks[i])
        THEN Raise("Exception", "unable to find subtitle data")
        ELSE Ok(m.timedtexttracks[CHOOSE i \in DOMAIN m.timedtexttracks :
                    /\ IsNone(m.timedtexttracks[i])
                    /\ \A j \in DOMAIN m.timedtexttracks :
                          IsNone(m.timedtexttracks[j]) => j <= i].new_track_id)

_find_subtitle_data(m) ==
    LET IsNone(t) == t.isNoneTrack
        i == FirstIndex({x \in DOMAIN m.timedtexttracks : IsNone(m.timedtexttracks[x])})
    IN  IF i = 0
        THEN Raise("Exception", "unable to find subtitle data")
        ELSE Ok(m.timedtexttracks[i].new_track_id)

----------------------------------------------------------------------------
(* Media-tag builder *)

\* Variant of build_media_tag without the subtraction of 1.
build_media_tag_no_offset(player_state, m, position) ==
    LET audio == _find_audio_data(player_state, m)
        video == _find_video_data(player_state, m)
        text == _find_subtitle_data(m)
    IN  IF audio.kind = "raise" THEN audio
        ELSE IF video.kind = "raise" THEN video
        ELSE IF text.kind = "raise" THEN text
        ELSE Ok(<<[total |-> position,
                   audio |-> <<[downloadableId |-> audio.value[1], duration |-> position]>>,
                   video |-> <<[downloadableId |-> video.value[1], duration |-> position]>>,
                   text |-> <<>>],
                  video.value[2], audio.value[2], text.value>>)

\* build_media_tag after its first statement: m is the manifest whose
\* audio_tracks apply_lang_code_changes has already rewritten.
build_media_tag(player_state, m, position) ==
    LET audio == _find_audio_data(player_state, m)
        video == _find_video_data(player_state, m)
        text == _find_subtitle_data(m)
        duration == position - 1
    IN  IF audio.kind = "raise" THEN audio
        ELSE IF video.kind = "raise" THEN video
        ELSE IF text.kind = "raise" THEN text
        ELSE Ok(<<[total |-> duration,
                   audio |-> <<[downloadableId |-> audio.value[1], duration |-> duration]>>,
                   video |-> <<[downloadableId |-> video.value[1], duration |-> duration]>>,
                   text |-> <<>>],
                  video.value[2], audio.value[2], text.value>>)

\* Variant of update_play_times_duration that forgets the video entry.
update_play_times_duration_partial(pt, player_state) ==
    LET duration == player_state.elapsed_seconds * 1000
    IN  [pt EXCEPT !.total = duration,
                   !.audio[1].duration = duration]

update_play_times_duration(pt, player_state) ==
    LET duration == player_state.elapsed_seconds * 1000
    IN  [pt EXCEPT !.total = duration,
                   !.audio[1].duration = duration,
                   !.video[1].duration = duration]

----------------------------------------------------------------------------
(* Change-detection gate *)

\* None, the previous state before the first report (`not previous_player_state`)
PyNone == [none |-> TRUE]

\* Variant of is_media_changed that asks for both descriptors to differ.
is_media_changed_both(previous_player_state, player_state) ==
    IF previous_player_state = PyNone
    THEN TRUE
    ELSE IF /\ player_state.currentvideostream # previous_player_state.currentvideostream
            /\ player_state.currentaudiostream # previous_player_state.currentaudiostream
         THEN TRUE
         ELSE FALSE

is_media_changed(previous_player_state, player_state) ==
    IF previous_player_state = PyNone
    THEN TRUE
    ELSE IF \/ player_state.currentvideostream # previous_player_state.currentvideostream
            \/ player_state.currentaudiostream # previous_player_state.currentaudiostream
         THEN TRUE
         ELSE FALSE

----------------------------------------------------------------------------
(* Inputs *)

ManifestLanguages == {"en", "iw"}
ChannelLabels == {"2.0", "5.1"}
Bitrates == {100, 300}
PlayerLanguages == {"eng", "he", "iw"}
PlayerChannels == {2, 6, 4}

\* Identifiers are opaque and unique: they are derived from the position.
AudioShapes ==
    SeqUpTo([language : ManifestLanguages, channels : ChannelLabels,
             bitrates : SeqUpTo(Bitrates, MaxStreams)], MaxTracks)

MkAudioTracks(shape) ==
    [i \in DOMAIN shape |->
        [language |-> shape[i].language,
         channels |-> shape[i].channels,
         new_track_id |-> 100 + i,
         streams |-> [j \in DOMAIN shape[i].bitrates |->
                        [downloadable_id |-> 10 * i + j,
                         bitrate |-> shape[i].bitrates[j]]]]]

PlayerAudio == [language : PlayerLanguages, channels : PlayerChannels]
NoVideo == [codec |-> <<>>, width |-> 0, height |-> 0]


\* Player codecs and manifest content profiles, character by character.
CodecH4 == <<"h", "4">>
CodecHx4 == <<"h", "-", "4">>
ProfileH4 == <<"p", "-", "h", "4", "m">>       \* contains CodecH4 with characters around it
ProfileHx4 == <<"p", "-", "h", "-", "4">>      \* contains CodecHx4, not CodecH4
PlayerCodecs == {CodecH4, CodecHx4}
PlayerSizes == {[w |-> 1280, h |-> 720], [w |-> 1281, h |-> 720], [w |-> 1280, h |-> 721]}
VideoStreamShapes ==
    {[content_profile |-> ProfileH4,  res_w |-> 1280, res_h |-> 720],
     [content_profile |-> ProfileHx4, res_w |-> 1280, res_h |-> 720],
     [content_profile |-> ProfileH4,  res_w |-> 1281, res_h |-> 720]}

VideoShapes == SeqUpTo(SeqUpTo(VideoStreamShapes, MaxStreams), MaxTracks)

MkVideoTracks(shape) ==
    [i \in DOMAIN shape |->
        [new_track_id |-> 200 + i,
         streams |-> [j \in DOMAIN shape[i] |->
                        [downloadable_id |-> 50 + 10 * i + j,
                         content_profile |-> shape[i][j].content_profile,
                         res_w |-> shape[i][j].res_w,
                         res_h |-> shape[i][j].res_h]]]]

PlayerVideo == {[codec |-> c, width |-> z.w, height |-> z.h] : c \in PlayerCodecs, z \in PlayerSizes}
NoAudio == [language |-> "", channels |-> 0]

MkSubtitleTracks(shape) ==
    [i \in DOMAIN shape |-> [new_track_id |-> 300 + i, isNoneTrack |-> shape[i]]]

----------------------------------------------------------------------------
(* Specification of the audio matcher alone *)

InitAudio ==
    /\ manifest \in {[NoManifest EXCEPT !.audio_tracks = MkAudioTracks(s)] : s \in AudioShapes}
    /\ play_times = NoPlayTimes
    /\ op = "none" /\ args = NoArgs /\ ret = NoCall
    /\ pc = "idle" /\ ui = <<>> /\ calls = <<>>

FindAudio ==
    \E a \in PlayerAudio :
        LET ps == [currentaudiostream |-> a, currentvideostream |-> NoVideo]
        IN  /\ op = "none"
            /\ op' = "_find_audio_data"
            /\ args' = [player_state |-> ps]
            /\ ret' = _find_audio_data(ps, manifest)
            /\ UNCHANGED <<manifest, play_times, pc, ui, calls>>

NextAudio == FindAudio

SpecAudio == InitAudio /\ [][NextAudio]_vars

----------------------------------------------------------------------------
(* Specification of the video matcher alone *)

InitVideo ==
    /\ manifest \in {[NoManifest EXCEPT !.video_tracks = MkVideoTracks(s)] : s \in VideoShapes}
    /\ play_times = NoPlayTimes
    /\ op = "none" /\ args = NoArgs /\ ret = NoCall
    /\ pc = "idle" /\ ui = <<>> /\ calls = <<>>

FindVideo ==
    \E v \in PlayerVideo :
        LET ps == [currentaudiostream |-> NoAudio, currentvideostream |-> v]
        IN  /\ op = "none"
            /\ op' = "_find_video_data"
            /\ args' = [player_state |-> ps]
            /\ ret' = _find_video_data(ps, manifest)
            /\ UNCHANGED <<manifest, play_times, pc, ui, calls>>

NextVideo == FindVideo

SpecVideo == InitVideo /\ [][NextVideo]_vars

----------------------------------------------------------------------------
(* Specification of the subtitle matcher alone *)

InitSubtitle ==
    /\ manifest \in {[NoManifest EXCEPT !.timedtexttracks = MkSubtitleTracks(s)] :
                        s \in SeqUpTo(BOOLEAN, MaxSubTracks)}
    /\ play_times = NoPlayTimes
    /\ op = "none" /\ args = NoArgs /\ ret = NoCall
    /\ pc = "idle" /\ ui = <<>> /\ calls = <<>>

FindSubtitle ==
    /\ op = "none"
    /\ op' = "_find_subtitle_data"
    /\ args' = NoArgs
    /\ ret' = _find_subtitle_data(manifest)
    /\ UNCHANGED <<manifest, play_times, pc, ui, calls>>

NextSubtitle == FindSubtitle

SpecSubtitle == InitSubtitle /\ [][NextSubtitle]_vars

----------------------------------------------------------------------------
(* Specification of the playback-reporting calls: one manifest, the media  *)
(* tag built from it and the play times updated afterwards                 *)

TagAudioShapes ==
    SeqUpTo([language : ManifestLanguages, channels : {"5.1"},
             bitrates : {<<100, 300>>}], MaxTracks)
TagVideoShapes ==
    SeqUpTo({<<[content_profile |-> ProfileH4, res_w |-> 1280, res_h |-> 720]>>,
             <<[content_profile |-> ProfileH4, res_w |-> 1281, res_h |-> 720]>>}, MaxTracks)
TagSubtitleShapes == SeqUpTo(BOOLEAN, MaxTracks)

TagManifests ==
    {[audio_tracks |-> MkAudioTracks(a),
      video_tracks |-> MkVideoTracks(v),
      timedtexttracks |-> MkSubtitleTracks(t)] :
        a \in TagAudioShapes, v \in TagVideoShapes, t \in TagSubtitleShapes}

ElapsedSeconds == {0, 5, 7}
Positions == {0, 5000}
TagPlayerStates ==
    {[currentaudiostream |-> [language |-> l, channels |-> c],
      currentvideostream |-> [codec |-> CodecH4, width |-> z.w, height |-> 720],
      elapsed_seconds |-> e] :
        l \in {"eng", "he"}, c \in {6, 4}, z \in {[w |-> 1280], [w |-> 1281]},
        e \in ElapsedSeconds}

\* update_play_times_duration reads elapsed_seconds only; the other fields vary
\* over fewer values here.
UpdatePlayerStates ==
    {ps \in TagPlayerStates :
        ps.currentaudiostream.channels = 6 /\ ps.currentvideostream.width = 1280}

Init ==
    /\ manifest \in TagManifests
    /\ play_times = NoPlayTimes
    /\ op = "none" /\ args = NoArgs /\ ret = NoCall
    /\ pc = "idle" /\ ui = <<>> /\ calls = <<>>

\* build_media_tag(player_state, manifest, position), called once on the
\* manifest; the caller keeps the returned playTimes dict.
BuildMediaTag ==
    \E ps \in TagPlayerStates, position \in Positions :
        LET m == [manifest EXCEPT !.audio_tracks = apply_lang_code_changes(@)]
            r == build_media_tag(ps, m, position)
        IN  /\ op = "none"
            /\ manifest' = m
            /\ op' = "build_media_tag"
            /\ args' = [player_state |-> ps, position |-> position]
            /\ ret' = r
            /\ play_times' = IF r.kind = "ok" THEN r.value[1] ELSE play_times
            /\ UNCHANGED <<pc, ui, calls>>

\* update_play_times_duration(play_times, player_state) on the kept dict
UpdatePlayTimes ==
    \E ps \in UpdatePlayerStates :
        /\ play_times # NoPlayTimes
        /\ play_times' = update_play_times_duration(play_times, ps)
        /\ op' = "update_play_times_duration"
        /\ args' = [player_state |-> ps]
        /\ ret' = Ok("None")
        /\ UNCHANGED <<manifest, pc, ui, calls>>

\* _find_audio_data called on its own, before any tag is built
FindAudioOfTag ==
    \E ps \in TagPlayerStates :
        /\ op = "none"
        /\ op' = "_find_audio_data"
        /\ args' = [player_state |-> ps]
        /\ ret' = _find_audio_data(ps, manifest)
        /\ UNCHANGED <<manifest, play_times, pc, ui, calls>>

Next == BuildMediaTag \/ UpdatePlayTimes \/ FindAudioOfTag

Spec == Init /\ [][Next]_vars

----------------------------------------------------------------------------
(* Specification of the change-detection gate *)

GatePlayerStates ==
    {[currentaudiostream |-> [language |-> l, channels |-> c],
      currentvideostream |-> [codec |-> k, width |-> w, height |-> 720],
      currentsubtitle |-> [language |-> t],
      elapsed_seconds |-> e] :
        l \in {"eng", "he"}, c \in {2, 6}, k \in PlayerCodecs, w \in {1280, 1281},
        t \in {"eng", "he"}, e \in {0, 5}}

InitGate ==
    /\ manifest = NoManifest
    /\ play_times = NoPlayTimes
    /\ op = "none" /\ args = NoArgs /\ ret = NoCall
    /\ pc = "idle" /\ ui = <<>> /\ calls = <<>>

IsMediaChanged ==
    \E previous \in GatePlayerStates \cup {PyNone}, current \in GatePlayerStates :
        /\ op = "none"
        /\ op' = "is_media_changed"
        /\ args' = [previous_player_state |-> previous, player_state |-> current]
        /\ ret' = Ok(is_media_changed(previous, current))
        /\ UNCHANGED <<manifest, play_times, pc, ui, calls>>

NextGate == IsMediaChanged

SpecGate == InitGate /\ [][NextGate]_vars

----------------------------------------------------------------------------
(* Failure reporter: display_error_info / error_catching_wrapper *)

\* The exception classes the decorated functions raise, each with its base
\* class (MSLError derives from Exception in common/exceptions.py).
BaseClass == [c \in {"MSLError", "KeyError", "ValueError"} |-> "Exception"]

\* isinstance(exc, cls) for an exception whose class is named c
IsInstance(c, cls) ==
    \/ c = cls
    \/ c \in DOMAIN BaseClass /\ BaseClass[c] = cls

\* What the decorated function does in one call
FuncOutcomes ==
    {Ok(v) : v \in {"manifest", "license"}}
        \cup {Raise(c, "failed") : c \in {"MSLError", "KeyError", "ValueError", "Exception"}}

\* error_catching_wrapper(*args): the call of func inside the try block
WrapperCall ==
    \E outcome \in FuncOutcomes :
        /\ pc = "idle"
        /\ Len(calls) < MaxCalls
        /\ pc' = "try"
        /\ calls' = Append(calls, outcome)
        /\ op' = "error_catching_wrapper"
        /\ args' = [func_outcome |-> outcome]
        /\ ret' = NoCall
        /\ UNCHANGED <<manifest, play_times, ui>>

\* return func(*args, **kwargs)
WrapperReturn ==
    /\ pc = "try"
    /\ args.func_outcome.kind = "ok"
    /\ ret' = args.func_outcome
    /\ pc' = "idle"
    /\ UNCHANGED <<manifest, play_times, op, args, ui, calls>>

\* except Exception as exc: message = f'{class name}: {exc}';
\* ui.show_error_info(title, message, unknown_error=not message,
\*                    netflix_error=isinstance(exc, MSLError))
WrapperShowError ==
    /\ pc = "try"
    /\ args.func_outcome.kind = "raise"
    /\ LET message == <<args.func_outcome.cls, ": ", args.func_outcome.msg>>
       IN  ui' = Append(ui, [title |-> 30028,
                             message |-> message,
                             unknown_error |-> (message = <<>>),
                             netflix_error |-> IsInstance(args.func_outcome.cls, "MSLError")])
    /\ pc' = "except"
    /\ UNCHANGED <<manifest, play_times, op, args, ret, calls>>

\* Variant of WrapperReraise that swallows the error and returns None.
WrapperSwallow ==
    /\ pc = "except"
    /\ ret' = Ok("None")
    /\ pc' = "idle"
    /\ UNCHANGED <<manifest, play_times, op, args, ui, calls>>

\* raise: the caught exception propagates to the caller
WrapperReraise ==
    /\ pc = "except"
    /\ ret' = args.func_outcome
    /\ pc' = "idle"
    /\ UNCHANGED <<manifest, play_times, op, args, ui, calls>>

InitWrapper ==
    /\ manifest = NoManifest
    /\ play_times = NoPlayTimes
    /\ op = "none" /\ args = NoArgs /\ ret = NoCall
    /\ pc = "idle" /\ ui = <<>> /\ calls = <<>>

NextWrapper == WrapperCall \/ WrapperReturn \/ WrapperShowError \/ WrapperReraise

SpecWrapper == InitWrapper /\ [][NextWrapper]_vars

----------------------------------------------------------------------------
(* Request parameter encoder *)

\* Concatenation of a sequence of sequences
RECURSIVE Concat(_)
Concat(ss) == IF ss = <<>> THEN <<>> ELSE ss[1] \o Concat(Tail(ss))

\* sep.join(parts)
RECURSIVE Join(_, _)
Join(parts, sep) ==
    IF parts = <<>> THEN <<>>
    ELSE IF Len(parts) = 1 THEN parts[1]
    ELSE parts[1] \o sep \o Join(Tail(parts), sep)

\* urllib.parse.quote_plus of one character: letters, digits and '_.-~' are
\* kept, a space becomes '+', any other character its %XX escape.
QuotePlusChar(c) ==
    CASE c = " "  -> <<"+">>
      [] c = "/"  -> <<"%", "2", "F">>
      [] c = "&"  -> <<"%", "2", "6">>
      [] c = "="  -> <<"%", "3", "D">>
      [] c = "%"  -> <<"%", "2", "5">>
      [] c = "+"  -> <<"%", "2", "B">>
      [] c = "?"  -> <<"%", "3", "F">>
      [] OTHER    -> <<c>>

quote_plus(str) == Concat([i \in DOMAIN str |-> QuotePlusChar(str[i])])

\* urlencode(params) for a list of (name, value) pairs of str
urlencode(params) ==
    Join([i \in DOMAIN params |->
            quote_plus(params[i][1]) \o <<"=">> \o quote_plus(params[i][2])], <<"&">>)

\* str.lower() of one character of the model's alphabet
LowerChar(c) ==
    CASE c = "W" -> "w"
      [] c = "X" -> "x"
      [] OTHER   -> c

lower(str) == [i \in DOMAIN str |-> LowerChar(str[i])]

\* G.LOCAL_DB.get_value(key, default, table=TABLE_SESSION): the stored value
\* of key, default when the table holds none.
get_value(db, key, default) == IF key \in DOMAIN db THEN db[key] ELSE default

\* Field names and fixed values of create_req_params, character by character
REQ_ATTEMPT == <<"r", "e", "q", "A", "t", "t", "e", "m", "p", "t">>
REQ_NAME == <<"r", "e", "q", "N", "a", "m", "e">>
CLIENTTYPE == <<"c", "l", "i", "e", "n", "t", "t", "y", "p", "e">>
UIVERSION == <<"u", "i", "v", "e", "r", "s", "i", "o", "n">>
BROWSERNAME == <<"b", "r", "o", "w", "s", "e", "r", "n", "a", "m", "e">>
BROWSERVERSION == <<"b", "r", "o", "w", "s", "e", "r", "v", "e", "r", "s", "i", "o", "n">>
OSNAME == <<"o", "s", "n", "a", "m", "e">>
OSVERSION == <<"o", "s", "v", "e", "r", "s", "i", "o", "n">>
AKIRA == <<"a", "k", "i", "r", "a">>
CHROME == <<"c", "h", "r", "o", "m", "e">>

\* "events/engage", "manifest", "a&b=c"
EVENTS_ENGAGE == <<"e", "v", "e", "n", "t", "s", "/", "e", "n", "g", "a", "g", "e">>
MANIFEST == <<"m", "a", "n", "i", "f", "e", "s", "t">>
A_AND_B == <<"a", "&", "b", "=", "c">>
\* "vdeb953cf", "W&x=%+", "Mac OS X"
V_BUILD == <<"v", "d", "e", "b", "9", "5", "3", "c", "f">>
V_MIXED == <<"W", "&", "x", "=", "%", "+">>
V_SPACED == <<"M", "a", "c", " ", "O", "S", " ", "X">>

\* Variant of create_req_params that joins the pairs without urlencode.
create_req_params_raw(req_name, db) ==
    LET params == <<
            <<REQ_ATTEMPT, <<>>>>,
            <<REQ_NAME, req_name>>,
            <<CLIENTTYPE, AKIRA>>,
            <<UIVERSION, get_value(db, "build_identifier", <<>>)>>,
            <<BROWSERNAME, CHROME>>,
            <<BROWSERVERSION, lower(get_value(db, "browser_info_version", <<>>))>>,
            <<OSNAME, lower(get_value(db, "browser_info_os_name", <<>>))>>,
            <<OSVERSION, get_value(db, "browser_info_os_version", <<>>)>> >>
    IN  <<"?">> \o Join([i \in DOMAIN params |->
                            params[i][1] \o <<"=">> \o params[i][2]], <<"&">>)

create_req_params(req_name, db) ==
    LET params == <<
            <<REQ_ATTEMPT, <<>>>>,
            <<REQ_NAME, req_name>>,
            <<CLIENTTYPE, AKIRA>>,
            <<UIVERSION, get_value(db, "build_identifier", <<>>)>>,
            <<BROWSERNAME, CHROME>>,
            <<BROWSERVERSION, lower(get_value(db, "browser_info_version", <<>>))>>,
            <<OSNAME, lower(get_value(db, "browser_info_os_name", <<>>))>>,
            <<OSVERSION, get_value(db, "browser_info_os_version", <<>>)>> >>
    IN  <<"?">> \o urlencode(params)

\* Request names and stored session values, character by character
ReqNames == {EVENTS_ENGAGE, MANIFEST, A_AND_B}
StoredValues == {V_BUILD, V_MIXED, V_SPACED}
SessionKeys == {"build_identifier", "browser_info_version",
                "browser_info_os_name", "browser_info_os_version"}
\* The session table: every key holds one of the values or is absent
SessionTables == UNION {[ks -> StoredValues] : ks \in SUBSET SessionKeys}

InitReq ==
    /\ manifest = NoManifest
    /\ play_times = NoPlayTimes
    /\ op = "none" /\ args = NoArgs /\ ret = NoCall
    /\ pc = "idle" /\ ui = <<>> /\ calls = <<>>

CreateReqParams ==
    \E req_name \in ReqNames, db \in SessionTables :
        /\ op = "none"
        /\ op' = "create_req_params"
        /\ args' = [req_name |-> req_name, db |-> db]
        /\ ret' = Ok(create_req_params(req_name, db))
        /\ UNCHANGED <<manifest, play_times, pc, ui, calls>>

NextReq == CreateReqParams

SpecReq == InitReq /\ [][NextReq]_vars

----------------------------------------------------------------------------
(* Event payload builder: generate_logblobs_params *)

\* str.replace(old, new) for one-character old and new
ReplaceChar(str, old, new) == [i \in DOMAIN str |-> IF str[i] = old THEN new ELSE str[i]]

\* str.replace(old, '') for a one-character old
RemoveChar(str, old) == SelectSeq(str, LAMBDA c : c # old)

\* str(n) for n >= 0
RECURSIVE IntToStr(_)
IntToStr(n) ==
    LET digit == <<"0", "1", "2", "3", "4", "5", "6", "7", "8", "9">>[(n % 10) + 1]
    IN  IF n < 10 THEN <<digit>> ELSE Append(IntToStr(n \div 10), digit)

\* json.dumps of a str: quotes and backslashes are escaped with a backslash
JsonEscapeChar(c) ==
    CASE c = "\"" -> <<"\\", "\"">>
      [] c = "\\" -> <<"\\", "\\">>
      [] OTHER    -> <<c>>

JsonStr(str) == <<"\"">> \o Concat([i \in DOMAIN str |-> JsonEscapeChar(str[i])]) \o <<"\"">>

\* json.dumps of a dict given as a sequence of <<key, dumped value>>, with the
\* default separators ', ' and ': '
JsonDict(items) ==
    <<"{">> \o Join([i \in DOMAIN items |->
                        JsonStr(items[i][1]) \o <<":", " ">> \o items[i][2]], <<",", " ">>)
            \o <<"}">>

\* Keys and fixed values of the blob, character by character
K_BROWSERUA == <<"b", "r", "o", "w", "s", "e", "r", "u", "a">>
K_BROWSERHREF == <<"b", "r", "o", "w", "s", "e", "r", "h", "r", "e", "f">>
K_SCREENSIZE == <<"s", "c", "r", "e", "e", "n", "s", "i", "z", "e">>
K_SCREENAVAILSIZE == <<"s", "c", "r", "e", "e", "n", "a", "v", "a", "i", "l", "s", "i", "z", "e">>
K_CLIENTSIZE == <<"c", "l", "i", "e", "n", "t", "s", "i", "z", "e">>
K_TYPE == <<"t", "y", "p", "e">>
K_SEV == <<"s", "e", "v">>
K_DEVMOD == <<"d", "e", "v", "m", "o", "d">>
K_CLVER == <<"c", "l", "v", "e", "r">>
K_OSPLATFORM == <<"o", "s", "p", "l", "a", "t", "f", "o", "r", "m">>
K_OSVER == <<"o", "s", "v", "e", "r">>
K_BROWSERNAME == <<"b", "r", "o", "w", "s", "e", "r", "n", "a", "m", "e">>
K_BROWSERVER == <<"b", "r", "o", "w", "s", "e", "r", "v", "e", "r">>
K_APPLOGSEQNUM == <<"a", "p", "p", "L", "o", "g", "S", "e", "q", "N", "u", "m">>
K_UNIQUELOGID == <<"u", "n", "i", "q", "u", "e", "L", "o", "g", "I", "d">>
K_APPID == <<"a", "p", "p", "I", "d">>
K_ESN == <<"e", "s", "n">>
K_LVER == <<"l", "v", "e", "r">>
K_CLIENTTIME == <<"c", "l", "i", "e", "n", "t", "t", "i", "m", "e">>
K_CLIENT_UTC == <<"c", "l", "i", "e", "n", "t", "_", "u", "t", "c">>
K_UIVER == <<"u", "i", "v", "e", "r">>
K_ENTRIES == <<"e", "n", "t", "r", "i", "e", "s">>
BROWSE_URL == <<"h", "t", "t", "p", "s", ":", "/", "/", "w", "w", "w", ".", "n", "e", "t", "f", "l", "i", "x", ".", "c", "o", "m", "/", "b", "r", "o", "w", "s", "e">>
STARTUP == <<"s", "t", "a", "r", "t", "u", "p">>
INFO == <<"i", "n", "f", "o">>
CHROME_CADMIUM == <<"c", "h", "r", "o", "m", "e", "-", "c", "a", "d", "m", "i", "u", "m">>
CHROME_NAME == <<"C", "h", "r", "o", "m", "e">>

\* json.dumps(blobs_container): the serialized payload, before the replacements.
\* env holds what the function reads from its collaborators: the user agent,
\* the screen size, the two readings of time.time() (in ms), the random number,
\* the session table, the uuid and the esn.
blobs_dump(env) ==
    LET screen_size == IntToStr(env.screen_width) \o <<"x">> \o IntToStr(env.screen_height)
        timestamp == env.time_ms
        app_id == (env.time2_ms \div 1000) * 10000 + env.random
        blob == <<
            <<K_BROWSERUA, JsonStr(ReplaceChar(env.user_agent, " ", "#"))>>,
            <<K_BROWSERHREF, JsonStr(BROWSE_URL)>>,
            <<K_SCREENSIZE, JsonStr(screen_size)>>,
            <<K_SCREENAVAILSIZE, JsonStr(screen_size)>>,
            <<K_CLIENTSIZE, JsonStr(screen_size)>>,
            <<K_TYPE, JsonStr(STARTUP)>>,
            <<K_SEV, JsonStr(INFO)>>,
            <<K_DEVMOD, JsonStr(CHROME_CADMIUM)>>,
            <<K_CLVER, JsonStr(get_value(env.db, "client_version", <<>>))>>,
            <<K_OSPLATFORM, JsonStr(get_value(env.db, "browser_info_os_name", <<>>))>>,
            <<K_OSVER, JsonStr(get_value(env.db, "browser_info_os_version", <<>>))>>,
            <<K_BROWSERNAME, JsonStr(CHROME_NAME)>>,
            <<K_BROWSERVER, JsonStr(get_value(env.db, "browser_info_version", <<>>))>>,
            <<K_APPLOGSEQNUM, IntToStr(0)>>,
            <<K_UNIQUELOGID, JsonStr(env.uuid)>>,
            <<K_APPID, IntToStr(app_id)>>,
            <<K_ESN, JsonStr(env.esn)>>,
            <<K_LVER, JsonStr(<<>>)>>,
            <<K_CLIENTTIME, IntToStr(timestamp)>>,
            <<K_CLIENT_UTC, IntToStr(env.time_ms \div 1000)>>,
            <<K_UIVER, JsonStr(get_value(env.db, "ui_version", <<>>))>> >>
    IN  JsonDict(<< <<K_ENTRIES, <<"[">> \o JsonDict(blob) \o <<"]">>>> >>)

\* blobs_dump.replace('"', '\"').replace(' ', '').replace('#', ' '); the
\* Python literal '\"' is the one-character string '"'.
generate_logblobs_params(env) ==
    [logblobs |->
        ReplaceChar(RemoveChar(ReplaceChar(blobs_dump(env), "\"", "\""), " "), "#", " ")]

\* What the collaborators return, character by character
\* User agents: "Mozilla/5.0 (X11)", "Moz #1", "Moz \"q\""
UA_PLAIN == <<"M", "o", "z", "i", "l", "l", "a", "/", "5", ".", "0", " ", "(", "X", "1", "1", ")">>
UA_HASH == <<"M", "o", "z", " ", "#", "1">>
UA_QUOTE == <<"M", "o", "z", " ", "\"", "q", "\"">>
ESN_A == <<"N", "F", "C", "D", "C", "H", "-", "0", "2", "-", "K", "1">>
ESN_B == <<"N", "F", "C", "D", "C", "H", "-", "0", "2", "-", "K", " ", "2">>
UUID_A == <<"9", "f", "1", "c", "-", "7", "7">>
UserAgents == {UA_PLAIN, UA_HASH, UA_QUOTE}
LogSessionTables ==
    UNION {[ks -> {V_BUILD, V_SPACED}] :
              ks \in SUBSET {"client_version", "browser_info_os_name", "ui_version"}}
Esns == {ESN_A, ESN_B}
\* Times are milliseconds since the epoch, taken close to it so that the
\* numbers stay small.
LogEnvs ==
    [user_agent : UserAgents, screen_width : {1920}, screen_height : {1080},
     time_ms : {12345}, time2_ms : {12345, 13001}, random : {1, 10001},
     db : LogSessionTables, uuid : {UUID_A}, esn : Esns]

InitLog ==
    /\ manifest = NoManifest
    /\ play_times = NoPlayTimes
    /\ op = "none" /\ args = NoArgs /\ ret = NoCall
    /\ pc = "idle" /\ ui = <<>> /\ calls = <<>>

GenerateLogblobsParams ==
    \E env \in LogEnvs :
        /\ op = "none"
        /\ op' = "generate_logblobs_params"
        /\ args' = env
        /\ ret' = Ok(generate_logblobs_params(env))
        /\ UNCHANGED <<manifest, play_times, pc, ui, calls>>

NextLog == GenerateLogblobsParams

SpecLog == InitLog /\ [][NextLog]_vars

----------------------------------------------------------------------------
(* Claims about the matchers *)

ArgAudio == args.player_state.currentaudiostream
ArgVideo == args.player_state.currentvideostream

\* The language the audio lookup compares with: the converted tag, or the raw
\* tag when the conversion yields nothing.
NormalizedLanguage ==
    IF convert_language_iso(ArgAudio.language) = ""
    THEN ArgAudio.language
    ELSE convert_language_iso(ArgAudio.language)

ChannelTable == {1, 2, 6, 8}
ChannelLabel(n) == CASE n = 1 -> "1.0" [] n = 2 -> "2.0" [] n = 6 -> "5.1" [] n = 8 -> "7.1"

\* Indices of the AudioTracks that match the descriptor of the last call
MatchingAudio ==
    {i \in DOMAIN manifest.audio_tracks :
        /\ manifest.audio_tracks[i].language = NormalizedLanguage
        /\ manifest.audio_tracks[i].channels = ChannelLabel(ArgAudio.channels)}

\* j is the first-listed stream of maximum bitrate in streams
IsFirstMax(streams, j) ==
    /\ \A k \in DOMAIN streams : streams[k].bitrate <= streams[j].bitrate
    /\ \A k \in DOMAIN streams : streams[k].bitrate = streams[j].bitrate => j <= k

\* The pair _find_audio_data must return from track i
IsAudioAnswer(v, i) ==
    \E j \in DOMAIN manifest.audio_tracks[i].streams :
        /\ IsFirstMax(manifest.audio_tracks[i].streams, j)
        /\ v = <<manifest.audio_tracks[i].streams[j].downloadable_id,
                 manifest.audio_tracks[i].new_track_id>>

IsFirstMatchingAudio(i) == i \in MatchingAudio /\ \A k \in MatchingAudio : i <= k

\* C1 as stated: with a channel count of the table, _find_audio_data returns
\* (downloadable_id, new_track_id) of the first matching AudioTrack, the
\* downloadable_id being that of the first-listed stream of maximum bitrate,
\* and it fails if and only if no AudioTrack matches.
C1_FailsOnlyWithoutMatch ==
    (op = "_find_audio_data" /\ ArgAudio.channels \in ChannelTable) =>
        /\ MatchingAudio = {} => ret.kind = "raise"
        /\ MatchingAudio # {} =>
              /\ ret.kind = "ok"
              /\ \E i \in MatchingAudio : IsFirstMatchingAudio(i) /\ IsAudioAnswer(ret.value, i)

\* C1 amended: as C1, except that the lookup fails if and only if no AudioTrack
\* matches or the first matching AudioTrack lists no stream.
C1_FindAudio ==
    (op = "_find_audio_data" /\ ArgAudio.channels \in ChannelTable) =>
        \/ /\ ret.kind = "raise"
           /\ \/ MatchingAudio = {}
              \/ \E i \in MatchingAudio :
                    IsFirstMatchingAudio(i) /\ manifest.audio_tracks[i].streams = <<>>
        \/ /\ ret.kind = "ok"
           /\ \E i \in MatchingAudio :
                 /\ IsFirstMatchingAudio(i)
                 /\ manifest.audio_tracks[i].streams # <<>>
                 /\ IsAudioAnswer(ret.value, i)

\* Two tracks match and the first one lists its maximum bitrate twice.
C1_Witness ==
    /\ op = "_find_audio_data"
    /\ ret.kind = "ok"
    /\ Cardinality(MatchingAudio) >= 2
    /\ \E i \in MatchingAudio :
          /\ IsFirstMatchingAudio(i)
          /\ \E j, k \in DOMAIN manifest.audio_tracks[i].streams :
                /\ j < k
                /\ IsFirstMax(manifest.audio_tracks[i].streams, j)
                /\ manifest.audio_tracks[i].streams[k].bitrate
                      = manifest.audio_tracks[i].streams[j].bitrate

\* Positions <<track, stream>> of the manifest's video streams
VideoPositions ==
    UNION {{<<i, j>> : j \in DOMAIN manifest.video_tracks[i].streams} :
              i \in DOMAIN manifest.video_tracks}

\* Positions of the video streams matching the last call
MatchingVideo ==
    {p \in VideoPositions :
           LET st == manifest.video_tracks[p[1]].streams[p[2]]
           IN  /\ IsSubstring(ArgVideo.codec, st.content_profile)
               /\ st.res_w = ArgVideo.width
               /\ st.res_h = ArgVideo.height}

NestedBefore(p, q) == p[1] < q[1] \/ (p[1] = q[1] /\ p[2] <= q[2])

\* The streams whose width or height is one pixel off the player's
OffByOne ==
    {p \in VideoPositions :
           LET st == manifest.video_tracks[p[1]].streams[p[2]]
           IN  \/ st.res_w - ArgVideo.width \in {-1, 1}
               \/ st.res_h - ArgVideo.height \in {-1, 1}}

\* C2: _find_video_data returns (downloadable_id, new_track_id) of the first
\* stream, tracks outer and streams inner, whose content_profile contains the
\* player's codec and whose res_w and res_h equal the player's width and height;
\* a stream one pixel off is never returned; it fails when no stream matches.
C2_FindVideo ==
    op = "_find_video_data" =>
        /\ MatchingVideo = {} => ret.kind = "raise"
        /\ MatchingVideo # {} =>
              /\ ret.kind = "ok"
              /\ \E p \in MatchingVideo :
                    /\ \A q \in MatchingVideo : NestedBefore(p, q)
                    /\ ret.value = <<manifest.video_tracks[p[1]].streams[p[2]].downloadable_id,
                                     manifest.video_tracks[p[1]].new_track_id>>
        /\ ret.kind = "ok" =>
              \A p \in OffByOne :
                 ret.value[1] # manifest.video_tracks[p[1]].streams[p[2]].downloadable_id

\* The answer sits in the second track, after a stream that is one pixel off
\* and before another match, and its profile is longer than the codec.
C2_Witness ==
    /\ op = "_find_video_data"
    /\ ret.kind = "ok"
    /\ Len(manifest.video_tracks) >= 2
    /\ ret.value[2] = manifest.video_tracks[2].new_track_id
    /\ \E p \in OffByOne : p[1] = 1
           /\ IsSubstring(ArgVideo.codec, manifest.video_tracks[1].streams[p[2]].content_profile)
    /\ Cardinality(MatchingVideo) >= 2
    /\ \A p \in MatchingVideo :
          Len(manifest.video_tracks[p[1]].streams[p[2]].content_profile) > Len(ArgVideo.codec)

NoneTracks == {i \in DOMAIN manifest.timedtexttracks : manifest.timedtexttracks[i].isNoneTrack}

\* C8: _find_subtitle_data returns the new_track_id of the first track of
\* timedtexttracks whose isNoneTrack is true, whatever follows it, and fails
\* with the "unable to find subtitle data" error when there is none.
C8_FindSubtitle ==
    op = "_find_subtitle_data" =>
        /\ NoneTracks = {} =>
              ret = Raise("Exception", "unable to find subtitle data")
        /\ NoneTracks # {} =>
              \E i \in NoneTracks :
                 /\ \A k \in NoneTracks : i <= k
                 /\ ret = Ok(manifest.timedtexttracks[i].new_track_id)

\* The first "disabled" track is neither the first nor the last such track.
C8_Witness ==
    /\ op = "_find_subtitle_data"
    /\ ret.kind = "ok"
    /\ 1 \notin NoneTracks
    /\ Cardinality(NoneTracks) >= 2
    /\ ret.value # manifest.timedtexttracks[Len(manifest.timedtexttracks)].new_track_id

----------------------------------------------------------------------------
(* Claims about the media tag, the play times and the gate *)

\* C3: when the three matchers succeed, build_media_tag returns a playTimes
\* whose total is position - 1, whose audio and video lists hold one entry each
\* with duration position - 1, and whose text list is empty.
C3_BuildMediaTag ==
    op = "build_media_tag" =>
        /\ (/\ _find_audio_data(args.player_state, manifest).kind = "ok"
            /\ _find_video_data(args.player_state, manifest).kind = "ok"
            /\ _find_subtitle_data(manifest).kind = "ok") => ret.kind = "ok"
        /\ ret.kind = "ok" =>
              /\ ret.value[1].total = args.position - 1
              /\ Len(ret.value[1].audio) = 1
              /\ ret.value[1].audio[1].duration = args.position - 1
              /\ Len(ret.value[1].video) = 1
              /\ ret.value[1].video[1].duration = args.position - 1
              /\ ret.value[1].text = <<>>
              /\ args.position = 5000 => ret.value[1].total = 4999

\* A tag built at position 5000
C3_Witness ==
    /\ op = "build_media_tag"
    /\ ret.kind = "ok"
    /\ args.position = 5000
    /\ ret.value[1].total = 4999

\* C7: with a channel count outside {1, 2, 6, 8} the audio lookup, called
\* directly or through build_media_tag, fails with the error of the channel
\* table (KeyError), never matches under a default label, and that error is
\* raised in no other case, so it differs from the error of a failed match.
C7_UnsupportedChannels ==
    op \in {"_find_audio_data", "build_media_tag"} =>
        /\ ArgAudio.channels \notin ChannelTable =>
              ret.kind = "raise" /\ ret.cls = "KeyError"
        /\ (ret.kind = "raise" /\ ArgAudio.channels \in ChannelTable) =>
              ret.cls # "KeyError"
        /\ (ret.kind = "raise" /\ ret.cls = "KeyError") =>
              ret # Raise("Exception", "unable to find audio data")

\* build_media_tag fails on the channel count although a track of the
\* player's language exists, with video and subtitle data that would match.
C7_Witness ==
    /\ op = "build_media_tag"
    /\ ArgAudio.channels \notin ChannelTable
    /\ ret.kind = "raise" /\ ret.cls = "KeyError"
    /\ \E i \in DOMAIN manifest.audio_tracks :
          manifest.audio_tracks[i].language = NormalizedLanguage
    /\ _find_video_data(args.player_state, manifest).kind = "ok"
    /\ _find_subtitle_data(manifest).kind = "ok"

C10_Shape ==
    play_times # NoPlayTimes =>
        /\ Len(play_times.audio) = 1
        /\ Len(play_times.video) = 1
        /\ play_times.text = <<>>
        /\ play_times.total = play_times.audio[1].duration
        /\ play_times.total = play_times.video[1].duration
        /\ op = "update_play_times_duration" =>
              play_times.total = args.player_state.elapsed_seconds * 1000

C10_KeepsIds ==
    play_times # NoPlayTimes =>
        /\ play_times'.audio[1].downloadableId = play_times.audio[1].downloadableId
        /\ play_times'.video[1].downloadableId = play_times.video[1].downloadableId

\* C10: after a successful build_media_tag and any number of
\* update_play_times_duration calls, total = audio[0].duration =
\* video[0].duration, the audio and video lists hold one entry each with the
\* downloadableId chosen at construction, the text list is empty, and after an
\* update the common value is elapsed_seconds * 1000 of the state passed to it.
C10_PlayTimes == []C10_Shape /\ [][C10_KeepsIds]_vars

\* An update to 7 seconds of a tag that held another duration
C10_Witness ==
    /\ op = "update_play_times_duration"
    /\ args.player_state.elapsed_seconds = 7
    /\ play_times.total = 7000
    /\ play_times.video[1].duration = 7000

DiffersByField(a, b, fields) == \E f \in fields : a[f] # b[f]

\* C4: is_media_changed is true without a previous state; with one it is true
\* exactly when the audio or the video descriptor differs in some field, so it
\* is false for twice the same state and for states that differ only in their
\* subtitle descriptor.
C4_IsMediaChanged ==
    op = "is_media_changed" =>
        LET prev == args.previous_player_state
            cur == args.player_state
        IN  /\ ret.kind = "ok"
            /\ prev = PyNone => ret.value = TRUE
            /\ prev # PyNone =>
                  /\ ret.value =
                        (\/ DiffersByField(cur.currentaudiostream, prev.currentaudiostream,
                                           {"language", "channels"})
                         \/ DiffersByField(cur.currentvideostream, prev.currentvideostream,
                                           {"codec", "width", "height"}))
                  /\ prev = cur => ret.value = FALSE
                  /\ (/\ prev.currentaudiostream = cur.currentaudiostream
                      /\ prev.currentvideostream = cur.currentvideostream
                      /\ prev.currentsubtitle # cur.currentsubtitle) => ret.value = FALSE

\* Two states that differ in their subtitle descriptor only
C4_Witness ==
    /\ op = "is_media_changed"
    /\ args.previous_player_state # PyNone
    /\ args.previous_player_state.currentsubtitle # args.player_state.currentsubtitle
    /\ args.previous_player_state.currentaudiostream = args.player_state.currentaudiostream
    /\ args.previous_player_state.currentvideostream = args.player_state.currentvideostream
    /\ ret.value = FALSE

----------------------------------------------------------------------------
(* Claims about the failure reporter *)

RECURSIVE FailuresOf(_)
\* The failed calls among the wrapped calls, in order
FailuresOf(cs) ==
    IF cs = <<>> THEN <<>>
    ELSE IF cs[1].kind = "raise"
         THEN <<cs[1]>> \o FailuresOf(Tail(cs))
         ELSE FailuresOf(Tail(cs))

\* The calls whose error dialog is due: all of them, less the one whose
\* function has run but whose except clause has not yet
CallsReported == IF pc = "try" THEN SubSeq(calls, 1, Len(calls) - 1) ELSE calls

C5_State ==
    op = "error_catching_wrapper" =>
        \* one dialog per failed call, none for a successful one, each
        \* classified by the class of the failure
        /\ Len(ui) = Len(FailuresOf(CallsReported))
        /\ \A i \in DOMAIN ui :
              ui[i].netflix_error = (FailuresOf(CallsReported)[i].cls = "MSLError")
        \* the wrapper ends with the outcome of the function: its result, or
        \* the same failure, and never normally after a failure
        /\ (pc = "idle") => ret = calls[Len(calls)]
        /\ (pc = "idle" /\ calls[Len(calls)].kind = "raise") => ret.kind = "raise"
        \* until the dialog is shown nothing has reached the caller
        /\ (pc \in {"try", "except"}) => ret = NoCall

C5_Step ==
    \* the failure reaches the caller in a step after the one that shows the dialog
    (ret'.kind = "raise" /\ ret.kind # "raise") => (pc = "except" /\ ui' = ui)

\* C5: the wrapper returns the result of a successful operation and shows no
\* error; after a failure it shows one error dialog, classified as a Netflix
\* error iff the failure is an MSLError, and only then re-raises the same
\* failure; it never ends normally after a failure.
C5_DisplayErrorInfo == []C5_State /\ [][C5_Step]_vars

\* A failed MSL call reported and re-raised after a successful call and a
\* failure of another class
C5_Witness ==
    /\ op = "error_catching_wrapper"
    /\ pc = "idle"
    /\ ret.kind = "raise" /\ ret.cls = "MSLError"
    /\ Len(calls) = 3 /\ Len(ui) = 2
    /\ ui[1].netflix_error = FALSE
    /\ ui[2].netflix_error = TRUE

----------------------------------------------------------------------------
(* Claims about the request parameters *)

\* str.split(sep) for a one-character separator
Split(str, sep) ==
    LET seps == {i \in DOMAIN str : str[i] = sep}
        \* position of the k-th separator; 0 and Len(str) + 1 bracket the string
        Pos(k) == IF k = 0 THEN 0
                  ELSE IF k = Cardinality(seps) + 1 THEN Len(str) + 1
                  ELSE CHOOSE i \in seps : Cardinality({j \in seps : j < i}) = k - 1
    IN  [k \in 1..(Cardinality(seps) + 1) |-> SubSeq(str, Pos(k - 1) + 1, Pos(k) - 1)]

\* The character a %XX escape of the model's alphabet stands for
Unescape(x, y) ==
    CASE x = "2" /\ y = "F" -> "/"
      [] x = "2" /\ y = "6" -> "&"
      [] x = "3" /\ y = "D" -> "="
      [] x = "2" /\ y = "5" -> "%"
      [] x = "2" /\ y = "B" -> "+"
      [] x = "3" /\ y = "F" -> "?"

\* urllib.parse.unquote_plus: what a server reads from a query-string value
RECURSIVE UnquotePlus(_)
UnquotePlus(str) ==
    IF str = <<>> THEN <<>>
    ELSE IF str[1] = "+" THEN <<" ">> \o UnquotePlus(Tail(str))
    ELSE IF str[1] = "%" /\ Len(str) >= 3
         THEN <<Unescape(str[2], str[3])>> \o UnquotePlus(SubSeq(str, 4, Len(str)))
    ELSE <<str[1]>> \o UnquotePlus(Tail(str))

\* The fields of a query string '?n1=v1&n2=v2...': <<name, value>> pairs
QueryFields(q) ==
    LET parts == Split(Tail(q), "&")
    IN  [i \in DOMAIN parts |->
            LET nv == Split(parts[i], "=")
            IN  IF Len(nv) = 2 THEN <<UnquotePlus(nv[1]), UnquotePlus(nv[2])>>
                ELSE <<UnquotePlus(nv[1])>>]

\* C6: create_req_params yields exactly the eight fields reqAttempt, reqName,
\* clienttype, uiversion, browsername, browserversion, osname, osversion, in
\* that order, reqAttempt empty and reqName the given request name, whatever
\* the session table holds.
C6_CreateReqParams ==
    op = "create_req_params" =>
        /\ ret.kind = "ok"
        /\ Head(ret.value) = "?"
        /\ LET fields == QueryFields(ret.value)
           IN  /\ Len(fields) = 8
               /\ \A i \in DOMAIN fields : Len(fields[i]) = 2
               /\ [i \in DOMAIN fields |-> fields[i][1]] =
                     <<REQ_ATTEMPT, REQ_NAME, CLIENTTYPE, UIVERSION,
                       BROWSERNAME, BROWSERVERSION, OSNAME, OSVERSION>>
               /\ fields[1][2] = <<>>
               /\ fields[2][2] = args.req_name

\* "events/engage" requested while the session table holds values with
\* separators and spaces in them
C6_Witness ==
    /\ op = "create_req_params"
    /\ args.req_name = EVENTS_ENGAGE
    /\ DOMAIN args.db = SessionKeys
    /\ args.db["build_identifier"] = V_MIXED
    /\ args.db["browser_info_os_name"] = V_SPACED
    /\ QueryFields(ret.value)[2][2] = EVENTS_ENGAGE

----------------------------------------------------------------------------
(* Claims about the logblob payload *)

\* The transform of generate_logblobs_params taken backwards: the spaces of
\* the result go back to '#', the deleted spaces have left no trace, and the
\* replacement of '"' is undone by the same replacement.
DecodeLogblobs(str) == ReplaceChar(ReplaceChar(str, " ", "#"), "\"", "\"")

\* C9: decoding the escaped string of generate_logblobs_params reconstructs
\* the serialized payload (json.dumps(blobs_container)) exactly.
C9_RoundTrip ==
    op = "generate_logblobs_params" =>
        DecodeLogblobs(ret.value.logblobs) = blobs_dump(args)

=============================================================================
